---- MODULE Spec2Model ----
(***************************************************************************)
(* Model of the tool invocation pipeline of toolkit-mcp-server: the        *)
(* sliding-window RateLimiter (utils/rate-limiter), the ProgressReporter   *)
(* and withProgress wrapper (utils/progress), handleToolError              *)
(* (utils/errors) and the CallToolRequestSchema handler of ToolkitServer,  *)
(* the Cache and the count-based RateLimiter (utils/cache), the geolocate  *)
(* and clearGeoCache handlers (tools/geo), the ListToolsRequestSchema      *)
(* handler and the signal handlers of ToolkitServer.                       *)
(*                                                                         *)
(* Time is Date.now() in milliseconds and is taken to be non-decreasing.   *)
(* Synchronous JavaScript between two awaits runs atomically, so each      *)
(* action is one such segment.                                             *)
(***************************************************************************)
EXTENDS Integers, Sequences, FiniteSets, TLC

VARIABLES
    now,        \* Date.now()
    limiters,   \* the three RateLimiter objects: requests map, maxRequests, windowMs
    inv,        \* the dispatcher invocations, one record each
    admitted,   \* history: per limiter and key, the times at which checkLimit succeeded
    last,       \* history: the most recent direct checkLimit call and what its caller saw
    calls,      \* history: number of direct checkLimit calls made so far
    advances,   \* history: number of clock advances made so far
    queries,    \* history: the getRemainingRequests / getTimeToReset calls, the last one and how many
    listed,     \* the response of the most recent tools/list request
    cache,      \* geoCache: the Map of a Cache object, key -> {data, timestamp}
    cacheOp,    \* history: the most recent direct call on the Cache object
    geoRl,      \* rateLimiter of tools/geo: requests, resetTime
    pending,    \* per query, the geolocate handlers awaiting fetchGeoData
    geoCall,    \* history: the most recent geolocate call and what it did at once
    lastDone,   \* history: per query, the most recent fetch that returned status "success"
    fetches,    \* history: number of external fetches started
    windowFetches, \* history: fetches started in the current window of geoRl
    lastFetch,  \* history: the most recent fetch that settled, and how
    reporters,  \* the ProgressReporter objects made by withProgress called directly
    proc        \* the process: connection, signal handlers under way, exit

\* the variables of the invocation pipeline
pipelineVars == <<limiters, inv, admitted, last, calls, advances>>

\* the variables of utils/cache and tools/geo
geoVars == <<cache, cacheOp, geoRl, pending, geoCall, lastDone, fetches,
             windowFetches, lastFetch>>

otherVars == <<queries, listed, geoVars, reporters, proc>>

vars == <<now, pipelineVars, otherVars>>

----------------------------------------------------------------------------
(* Bounds of the model *)

\* The limiter instances are checked with scaled-down configurations; the
\* program's own values are ProdConfig below.
SystemMaxScaled == 1
NetworkMaxScaled == 2
GeoMaxScaled == 1
WindowMsScaled == 2000
\* Largest clock value explored by Spec; SpecLimiter explores twice as far.
MaxTime == 2000
\* Number of dispatcher invocations in a run of Spec; all may be in flight at once.
MaxInv == 2
\* Number of checkLimit calls in a run of SpecLimiter.
MaxCalls == 4
\* Number of clock advances in a run of SpecProd.
MaxAdvances == 2
\* Number of progress.report() calls a handler makes.
MaxReports == 1
\* Number of getRemainingRequests / getTimeToReset calls in a run of SpecQuery.
MaxQueries == 1
\* Number of external fetches started in a run of SpecGeo.
MaxFetches == 2
\* Number of termination signals delivered in a run of SpecShutdown.
MaxSignals == 3
\* The rateLimiter of tools/geo is checked with a scaled-down maxRequests.
GeoApiMaxScaled == 1
\* Number of withProgress calls in a run of SpecReporter.
MaxReporters == 2
\* Number of report() calls, over all reporters, in a run of SpecReporter.
MaxReportCalls == 2

\* Clock steps explored by Spec and SpecLimiter, in ms.
Deltas == {1000, 2000}
\* Values of the increment argument of report() explored by SpecReporter.
Increments == {-1, 1}
\* Outcomes of Math.random() explored by SpecReporter.
Rands == {0, 1}
\* Clock steps explored by SpecProd, in ms.
ProdDeltas == {999, 59001}
\* Clock steps explored by SpecCache and SpecGeo, in ms: their sums reach the
\* ttl exactly and pass it by one.
CacheDeltas == {1, 299999, 300001}

----------------------------------------------------------------------------
(* Program constants *)

SystemMaxRequests == 100
NetworkMaxRequests == 50
GeoMaxRequests == 45
WindowMs == 60000
MsPerSecond == 1000
\* new Cache<GeoLocation>(5 * 60 * 1000)
CacheTtl == 300000
\* new RateLimiter(45, 60000) of tools/geo
GeoApiMaxRequests == 45
GeoApiWindowMs == 60000

Limiters == {"system", "network", "geo"}

ProdConfig ==
    [system  |-> [maxRequests |-> SystemMaxRequests,  windowMs |-> WindowMs],
     network |-> [maxRequests |-> NetworkMaxRequests, windowMs |-> WindowMs],
     geo     |-> [maxRequests |-> GeoMaxRequests,     windowMs |-> WindowMs]]

ScaledConfig ==
    [system  |-> [maxRequests |-> SystemMaxScaled,  windowMs |-> WindowMsScaled],
     network |-> [maxRequests |-> NetworkMaxScaled, windowMs |-> WindowMsScaled],
     geo     |-> [maxRequests |-> GeoMaxScaled,     windowMs |-> WindowMsScaled]]

----------------------------------------------------------------------------
(* Map<string, number[]> *)

EmptyMap == [k \in {} |-> <<>>]

\* this.requests.get(key) || []
MapGet(m, k) == IF k \in DOMAIN m THEN m[k] ELSE <<>>

MapSet(m, k, v) == [x \in (DOMAIN m) \cup {k} |-> IF x = k THEN v ELSE m[x]]

\* Math.ceil(a / b) for b > 0
CeilDiv(a, b) == -((-a) \div b)

Max(a, b) == IF a >= b THEN a ELSE b

----------------------------------------------------------------------------
(* class RateLimiter *)

NewLimiter(config) ==
    [requests |-> EmptyMap, maxRequests |-> config.maxRequests, windowMs |-> config.windowMs]

InWindowLoose(t, time, windowMs) == t - time <= windowMs

\* the filter predicate: now - time < this.windowMs
InWindow(t, time, windowMs) == t - time < windowMs

\* timestamps.filter(time => now - time < this.windowMs)
ValidTimestamps(timestamps, t, windowMs) ==
    SelectSeq(timestamps, LAMBDA time : InWindow(t, time, windowMs))

ResetTimeFloor(lim, validTimestamps, t) ==
    (validTimestamps[1] + lim.windowMs - t) \div MsPerSecond

\* Math.ceil((oldestRequest + this.windowMs - now) / 1000)
ResetTime(lim, validTimestamps, t) ==
    CeilDiv(validTimestamps[1] + lim.windowMs - t, MsPerSecond)

LimitReachedOffByOne(lim, validTimestamps) == Len(validTimestamps) > lim.maxRequests

\* validTimestamps.length >= this.maxRequests
LimitReached(lim, validTimestamps) == Len(validTimestamps) >= lim.maxRequests

CheckLimitRecordsRejected(lim, key, t) ==
    LET timestamps == MapGet(lim.requests, key)
        validTimestamps == ValidTimestamps(timestamps, t, lim.windowMs)
        recorded == [lim EXCEPT !.requests =
                        MapSet(lim.requests, key, Append(validTimestamps, t))]
    IN  IF LimitReached(lim, validTimestamps)
        THEN [ok |-> FALSE,
              resetInSeconds |-> ResetTime(lim, validTimestamps, t),
              lim |-> recorded]
        ELSE [ok |-> TRUE, resetInSeconds |-> 0, lim |-> recorded]

CheckLimitOverwrite(lim, key, t) ==
    LET timestamps == MapGet(lim.requests, key)
        validTimestamps == ValidTimestamps(timestamps, t, lim.windowMs)
    IN  IF LimitReached(lim, validTimestamps)
        THEN [ok |-> FALSE,
              resetInSeconds |-> ResetTime(lim, validTimestamps, t),
              lim |-> lim]
        ELSE [ok |-> TRUE,
              resetInSeconds |-> 0,
              lim |-> [lim EXCEPT !.requests = MapSet(lim.requests, key, <<t>>)]]

\* checkLimit(key) at time t: either throws the rate-limit McpToolError carrying
\* resetInSeconds (ok = FALSE, the limiter unchanged) or records t.
CheckLimit(lim, key, t) ==
    LET timestamps == MapGet(lim.requests, key)
        validTimestamps == ValidTimestamps(timestamps, t, lim.windowMs)
    IN  IF LimitReached(lim, validTimestamps)
        THEN [ok |-> FALSE,
              resetInSeconds |-> ResetTime(lim, validTimestamps, t),
              lim |-> lim]
        ELSE [ok |-> TRUE,
              resetInSeconds |-> 0,
              lim |-> [lim EXCEPT !.requests =
                          MapSet(lim.requests, key, Append(validTimestamps, t))]]

LimiterAfterThrowRollsBack(lim, key) ==
    LET timestamps == MapGet(lim.requests, key)
    IN  IF Len(timestamps) = 0
        THEN lim
        ELSE [lim EXCEPT !.requests =
                 MapSet(lim.requests, key, SubSeq(timestamps, 1, Len(timestamps) - 1))]

\* withRateLimit(key, operation) when operation() rejects: checkLimit has
\* returned, return operation() passes the rejection on, nothing is undone
LimiterAfterThrow(lim, key) == lim

GetRemainingRequests(lim, key, t) ==
    LET timestamps == MapGet(lim.requests, key)
        validTimestamps == ValidTimestamps(timestamps, t, lim.windowMs)
    IN  Max(0, lim.maxRequests - Len(validTimestamps))

AfterQueryStoresPruned(lim, key, t) ==
    [lim EXCEPT !.requests =
        MapSet(lim.requests, key,
               ValidTimestamps(MapGet(lim.requests, key), t, lim.windowMs))]

\* the limiter after getRemainingRequests(key) or getTimeToReset(key): both
\* filter into a local array and write nothing back
AfterQuery(lim, key, t) == lim

GetTimeToReset(lim, key, t) ==
    LET timestamps == MapGet(lim.requests, key)
        validTimestamps == ValidTimestamps(timestamps, t, lim.windowMs)
    IN  IF Len(validTimestamps) = 0
        THEN 0
        ELSE Max(0, validTimestamps[1] + lim.windowMs - t)

CleanupDropsStale(lim, t) ==
    LET kept == {k \in DOMAIN lim.requests :
                    ValidTimestamps(lim.requests[k], t, lim.windowMs) = lim.requests[k]}
    IN  [lim EXCEPT !.requests = [k \in kept |-> lim.requests[k]]]

\* cleanup(): keys whose filtered list is empty are deleted, the others keep
\* the filtered list.
Cleanup(lim, t) ==
    LET kept == {k \in DOMAIN lim.requests :
                    Len(ValidTimestamps(lim.requests[k], t, lim.windowMs)) # 0}
    IN  [lim EXCEPT !.requests =
            [k \in kept |-> ValidTimestamps(lim.requests[k], t, lim.windowMs)]]

----------------------------------------------------------------------------
(* The tool registry: allTools *)

SystemTools == {"getCurrentTime", "getSystemInfo", "getLoadAverage"}
SecurityTools == {"hashData", "compareHashes"}
NetworkTools == {"getNetworkInterfaces", "checkConnectivity", "getPublicIP",
                 "pingHost", "traceroute"}
GeoTools == {"geolocate", "clearGeoCache"}
GeneratorTools == {"generateUUID", "generateQRCode"}
DateTimeTools == {"convertTimezone", "listTimezones"}

\* the own keys of allTools
Registered ==
    SystemTools \cup NetworkTools \cup GeoTools \cup GeneratorTools
        \cup DateTimeTools \cup SecurityTools

\* allTools is an object literal, so its prototype is Object.prototype and a
\* property read by name also finds what Object.prototype defines.
ObjectPrototypeKeys ==
    {"constructor", "toString", "valueOf", "hasOwnProperty", "__proto__"}

\* The tool names requests are made with: registered ones routed to each
\* limiter, a name that nothing defines, and a name Object.prototype defines.
CallNames ==
    {"getSystemInfo", "getCurrentTime", "traceroute", "geolocate",
     "no_such_tool", "constructor"}

\* The characters of a tool name.
Chars(name) ==
    CASE
       name = "getCurrentTime" -> <<"g", "e", "t", "C", "u", "r", "r", "e", "n", "t", "T", "i", "m", "e">>
    [] name = "getSystemInfo" -> <<"g", "e", "t", "S", "y", "s", "t", "e", "m", "I", "n", "f", "o">>
    [] name = "getLoadAverage" -> <<"g", "e", "t", "L", "o", "a", "d", "A", "v", "e", "r", "a", "g", "e">>
    [] name = "getNetworkInterfaces" -> <<"g", "e", "t", "N", "e", "t", "w", "o", "r", "k", "I", "n", "t", "e", "r", "f", "a", "c", "e", "s">>
    [] name = "checkConnectivity" -> <<"c", "h", "e", "c", "k", "C", "o", "n", "n", "e", "c", "t", "i", "v", "i", "t", "y">>
    [] name = "getPublicIP" -> <<"g", "e", "t", "P", "u", "b", "l", "i", "c", "I", "P">>
    [] name = "pingHost" -> <<"p", "i", "n", "g", "H", "o", "s", "t">>
    [] name = "traceroute" -> <<"t", "r", "a", "c", "e", "r", "o", "u", "t", "e">>
    [] name = "geolocate" -> <<"g", "e", "o", "l", "o", "c", "a", "t", "e">>
    [] name = "clearGeoCache" -> <<"c", "l", "e", "a", "r", "G", "e", "o", "C", "a", "c", "h", "e">>
    [] name = "generateUUID" -> <<"g", "e", "n", "e", "r", "a", "t", "e", "U", "U", "I", "D">>
    [] name = "generateQRCode" -> <<"g", "e", "n", "e", "r", "a", "t", "e", "Q", "R", "C", "o", "d", "e">>
    [] name = "convertTimezone" -> <<"c", "o", "n", "v", "e", "r", "t", "T", "i", "m", "e", "z", "o", "n", "e">>
    [] name = "listTimezones" -> <<"l", "i", "s", "t", "T", "i", "m", "e", "z", "o", "n", "e", "s">>
    [] name = "hashData" -> <<"h", "a", "s", "h", "D", "a", "t", "a">>
    [] name = "compareHashes" -> <<"c", "o", "m", "p", "a", "r", "e", "H", "a", "s", "h", "e", "s">>
    [] name = "no_such_tool" -> <<"n", "o", "_", "s", "u", "c", "h", "_", "t", "o", "o", "l">>
    [] name = "constructor" -> <<"c", "o", "n", "s", "t", "r", "u", "c", "t", "o", "r">>

\* String.prototype.startsWith
StartsWith(name, prefix) ==
    /\ Len(Chars(name)) >= Len(prefix)
    /\ SubSeq(Chars(name), 1, Len(prefix)) = prefix

\* const tool = allTools[name]; the test `!tool` fails (the lookup is truthy)
\* for every own key and for every key found on the prototype.
Lookup(name) == name \in Registered \cup ObjectPrototypeKeys

\* tool.handler is a function only for the registered descriptors.
HasHandler(name) == name \in Registered

RouteDefaultNetwork(name) ==
    IF StartsWith(name, <<"g", "e", "t", "_", "s", "y", "s", "t", "e", "m">>)
    THEN "system"
    ELSE IF name = "geolocate" THEN "geo" ELSE "network"

RouteByGroup(name) ==
    IF name \in NetworkTools
    THEN "network"
    ELSE IF name \in GeoTools THEN "geo" ELSE "system"

\* the selection of the rate limiter by tool name
Route(name) ==
    IF StartsWith(name, <<"g", "e", "t", "_", "s", "y", "s", "t", "e", "m">>)
    THEN "system"
    ELSE IF \/ StartsWith(name, <<"g", "e", "t", "_", "n", "e", "t", "w", "o", "r", "k">>)
            \/ name = "ping_host"
            \/ name = "traceroute"
         THEN "network"
         ELSE IF name = "geolocate"
              THEN "geo"
              ELSE "system"

\* the key passed to withRateLimit: request.params.name
LimiterKey(name) == name

RunsOperationAlways(check) == TRUE

\* withRateLimit: operation() is reached only when checkLimit returned
RunsOperation(check) == check.ok

----------------------------------------------------------------------------
(* Errors and the response envelope *)

NoData == [present |-> FALSE, resetInSeconds |-> 0]

McpToolError(code, message, data) ==
    [type |-> "McpToolError", code |-> code, message |-> message, data |-> data]

Error(message) ==
    [type |-> "Error", code |-> "", message |-> message, data |-> NoData]

\* a thrown value that is no Error object
NonError == [type |-> "NonError", code |-> "", message |-> "", data |-> NoData]

NoError == [type |-> "none", code |-> "", message |-> "", data |-> NoData]

ToolNotFound(name) == McpToolError("MethodNotFound", "Tool not found", NoData)

RateLimitExceeded(resetInSeconds) ==
    McpToolError("InternalError", "Rate limit exceeded",
                 [present |-> TRUE, resetInSeconds |-> resetInSeconds])

\* what the handlers of the Tool interface may throw
ThrownValues ==
    {Error("handler failed"),
     McpToolError("InvalidParams", "invalid input", NoData),
     NonError}

HandleToolErrorRawMessage(error) ==
    [isError |-> TRUE,
     text |-> [prefix |-> "Internal error: ", code |-> "",
               message |-> error.message, details |-> NoData]]

\* handleToolError(error): the text is kept as its parts
HandleToolError(error) ==
    IF error.type = "McpToolError"
    THEN [isError |-> TRUE,
          text |-> [prefix |-> "Error ", code |-> error.code,
                    message |-> error.message, details |-> error.data]]
    ELSE [isError |-> TRUE,
          text |-> [prefix |-> "Internal error: ", code |-> "",
                    message |-> IF error.type = "Error" THEN error.message
                                ELSE "Unknown error",
                    details |-> NoData]]

NoText == [prefix |-> "", code |-> "", message |-> "", details |-> NoData]

NoResponse == [kind |-> "none", isError |-> FALSE, text |-> NoText, error |-> NoError]

\* return { content: result.content, _meta: result.isError ? ... : undefined }
SuccessEnvelope ==
    [kind |-> "envelope", isError |-> FALSE,
     text |-> [NoText EXCEPT !.message = "content"], error |-> NoError]

CatchAlwaysEnvelope(error) ==
    [kind |-> "envelope", isError |-> TRUE,
     text |-> HandleToolError(error).text, error |-> NoError]

\* the catch block of the CallToolRequestSchema handler: a McpToolError is
\* thrown on to the caller, anything else becomes the error envelope
Catch(error) ==
    IF error.type = "McpToolError"
    THEN [kind |-> "thrown", isError |-> FALSE, text |-> NoText, error |-> error]
    ELSE [kind |-> "envelope", isError |-> HandleToolError(error).isError,
          text |-> HandleToolError(error).text, error |-> NoError]

----------------------------------------------------------------------------
(* class Cache *)

CacheKeys == {"q1", "q2"}

CacheValues == {"d1", "d2"}

\* new Map()
NoEntries == [k \in {} |-> [data |-> "", timestamp |-> 0]]

\* no entry under a key
NoEntry == [data |-> "", timestamp |-> -1]

EntryOf(c, k) == IF k \in DOMAIN c THEN c[k] ELSE NoEntry

CacheSetKeepsTimestamp(c, k, v, t) ==
    [x \in (DOMAIN c) \cup {k} |->
        IF x = k
        THEN [data |-> v, timestamp |-> IF k \in DOMAIN c THEN c[k].timestamp ELSE t]
        ELSE c[x]]

\* set(key, value): this.cache.set(key, {data: value, timestamp: Date.now()})
CacheSet(c, k, v, t) ==
    [x \in (DOMAIN c) \cup {k} |->
        IF x = k THEN [data |-> v, timestamp |-> t] ELSE c[x]]

ExpiredLate(entry, t, ttl) == t - entry.timestamp > ttl + 1

\* now - entry.timestamp > this.ttl
Expired(entry, t, ttl) == t - entry.timestamp > ttl

\* this.cache.delete(key)
CacheDelete(c, k) == [x \in (DOMAIN c) \ {k} |-> c[x]]

\* get(key) at time t: the value or null (found = FALSE), and the map after it
CacheGet(c, k, t, ttl) ==
    IF k \notin DOMAIN c
    THEN [found |-> FALSE, data |-> "", cache |-> c]
    ELSE IF Expired(c[k], t, ttl)
         THEN [found |-> FALSE, data |-> "", cache |-> CacheDelete(c, k)]
         ELSE [found |-> TRUE, data |-> c[k].data, cache |-> c]

\* clear()
CacheClear(c) == NoEntries

\* prune() at time t
CachePrune(c, t, ttl) ==
    [x \in {k \in DOMAIN c : ~Expired(c[k], t, ttl)} |-> c[x]]

----------------------------------------------------------------------------
(* class RateLimiter of utils/cache: one counter per window *)

\* constructor(maxRequests, windowMs) at time t
NewCountLimiter(maxRequests, windowMs, t) ==
    [requests |-> 0, resetTime |-> t + windowMs,
     maxRequests |-> maxRequests, windowMs |-> windowMs]

\* canMakeRequest() at time t: the answer and the limiter after it
CanMakeRequest(rl, t) ==
    LET after == IF t >= rl.resetTime
                 THEN [rl EXCEPT !.requests = 0, !.resetTime = t + rl.windowMs]
                 ELSE rl
    IN  [ok |-> after.requests < after.maxRequests, rl |-> after]

\* incrementRequests()
IncrementRequests(rl) == [rl EXCEPT !.requests = @ + 1]

----------------------------------------------------------------------------
(* State *)

NoQuery == [n |-> 0, op |-> "none", limiter |-> "none", key |-> "", at |-> 0]

\* no tools/list request answered yet
NoList == [answered |-> FALSE, tools |-> {}]

NoCacheOp ==
    [op |-> "none", key |-> "", value |-> "", at |-> 0,
     found |-> FALSE, data |-> "", prev |-> NoEntry]

NoGeoCall == [query |-> "", at |-> 0, outcome |-> "none", data |-> ""]

NoFetch == [status |-> "none", data |-> "", at |-> 0]

NoneSettled == [query |-> "", status |-> "none"]

\* The process after new ToolkitServer(): the listeners of setupCleanup are
\* registered, run() has not connected yet. cleanup[n] and runHandler[n] are
\* the positions of the two listeners called for the n-th signal.
InitProc ==
    [connected |-> FALSE, runListeners |-> FALSE, isShuttingDown |-> FALSE,
     signals |-> 0,
     cleanup |-> [n \in 1..MaxSignals |-> "idle"],
     runHandler |-> [n \in 1..MaxSignals |-> "idle"],
     shutdownStarted |-> 0, shutdownSent |-> 0,
     closeStarted |-> FALSE, closed |-> FALSE,
     exit |-> "running"]

Slots == 1..MaxInv

IdleSlot ==
    [pc |-> "idle", name |-> "", admitted |-> FALSE, rejected |-> FALSE,
     handlerCalls |-> 0, completeSends |-> 0, errorSends |-> 0,
     handler |-> "none", error |-> NoError, response |-> NoResponse,
     limitChecks |-> 0, startedAt |-> 0,
     current |-> 0, reportSends |-> 0, failedSends |-> 0, carried |-> <<>>]

NoCall ==
    [limiter |-> "none", key |-> "", at |-> 0, ok |-> TRUE, resetInSeconds |-> 0]

InitWith(config) ==
    /\ now = 0
    /\ limiters = [l \in Limiters |-> NewLimiter(config[l])]
    /\ inv = [i \in Slots |-> IdleSlot]
    /\ admitted = [l \in Limiters |-> EmptyMap]
    /\ last = NoCall
    /\ calls = 0
    /\ advances = 0
    /\ queries = NoQuery
    /\ listed = NoList
    /\ cache = NoEntries
    /\ cacheOp = NoCacheOp
    /\ geoRl = NewCountLimiter(GeoApiMaxScaled, GeoApiWindowMs, 0)
    /\ pending = [q \in CacheKeys |-> 0]
    /\ geoCall = NoGeoCall
    /\ lastDone = [q \in CacheKeys |-> NoFetch]
    /\ fetches = 0
    /\ windowFetches = 0
    /\ lastFetch = NoneSettled
    /\ reporters = <<>>
    /\ proc = InitProc

Init == InitWith(ScaledConfig)

InitProd == InitWith(ProdConfig)

----------------------------------------------------------------------------
(* Steps shared by the specifications *)

\* One checkLimit(key) on limiter l at the current time, with its history.
DoCheckLimit(l, key) ==
    LET check == CheckLimit(limiters[l], key, now)
    IN  /\ limiters' = [limiters EXCEPT ![l] = check.lim]
        /\ admitted' =
              IF check.ok
              THEN [admitted EXCEPT ![l] =
                      MapSet(admitted[l], key, Append(MapGet(admitted[l], key), now))]
              ELSE admitted

\* Date.now() moves on.
Tick(d) ==
    /\ now' = now + d
    /\ UNCHANGED <<limiters, inv, admitted, last, calls, advances, otherVars>>

Advance(d) ==
    /\ now + d <= MaxTime
    /\ Tick(d)

\* The setInterval callback: cleanup() of the three limiters.
CleanupTick ==
    /\ limiters' = [l \in Limiters |-> Cleanup(limiters[l], now)]
    /\ limiters' # limiters
    /\ UNCHANGED <<now, inv, admitted, last, calls, advances, otherVars>>

----------------------------------------------------------------------------
(* withProgress and the callback passed to it *)

AfterReturnNoComplete(slot) ==
    [slot EXCEPT !.pc = "completing", !.handler = "returned"]

\* const toolResult = await tool.handler(...); await progress.complete():
\* the handler returned, the complete notification is being sent
AfterReturn(slot) ==
    [slot EXCEPT !.pc = "completing", !.handler = "returned",
                 !.completeSends = @ + 1]

AfterThrowAlsoComplete(slot, e) ==
    [slot EXCEPT !.pc = "erroring", !.handler = "threw", !.error = e,
                 !.errorSends = @ + 1, !.completeSends = @ + 1]

AfterThrowRetry(slot, e) ==
    [slot EXCEPT !.pc = "executing", !.error = e, !.errorSends = @ + 1,
                 !.handlerCalls = @ + 1]

\* catch (error) { await progress.error(...); throw error }: the operation
\* threw e, the error notification is being sent
AfterThrow(slot, e) ==
    [slot EXCEPT !.pc = "erroring", !.handler = "threw", !.error = e,
                 !.errorSends = @ + 1]

\* ProgressReporter.report(increment): this.current += increment, then the
\* notification, whose params carry the new current; its failure is caught
\* inside report()
Report(slot, increment, delivered) ==
    [slot EXCEPT !.current = @ + increment,
                 !.carried = Append(@, slot.current + increment),
                 !.reportSends = @ + 1,
                 !.failedSends = IF delivered THEN @ ELSE @ + 1]

SettlePropagates(slot, delivered) ==
    [slot EXCEPT
        !.pc = "done",
        !.failedSends = IF delivered THEN @ ELSE @ + 1,
        !.response = IF ~delivered
                     THEN Catch(Error("notification failed"))
                     ELSE IF slot.pc = "completing"
                          THEN SuccessEnvelope
                          ELSE Catch(slot.error)]

\* The send inside complete() / error() settles; a rejected send is caught
\* and logged there. After complete() the callback returns toolResult and the
\* request handler returns the envelope; after error() withProgress throws the
\* handler's error again and it reaches the catch block of the request handler.
Settle(slot, delivered) ==
    [slot EXCEPT
        !.pc = "done",
        !.failedSends = IF delivered THEN @ ELSE @ + 1,
        !.response = IF slot.pc = "completing"
                     THEN SuccessEnvelope
                     ELSE Catch(slot.error)]

----------------------------------------------------------------------------
(* The CallToolRequestSchema handler *)

\* A request arrives: lookup, routing, withRateLimit -> checkLimit, then
\* withProgress creates the reporter and calls tool.handler, all before the
\* first await.
CallTool(i, name) ==
    /\ inv[i].pc = "idle"
    /\ \A j \in Slots : j < i => inv[j].pc # "idle"
    /\ UNCHANGED <<now, last, calls, advances, otherVars>>
    /\ IF ~Lookup(name)
       THEN /\ inv' = [inv EXCEPT ![i] =
                        [IdleSlot EXCEPT !.pc = "done", !.name = name,
                                         !.response = Catch(ToolNotFound(name))]]
            /\ UNCHANGED <<limiters, admitted>>
       ELSE LET l == Route(name)
                check == CheckLimit(limiters[l], LimiterKey(name), now)
            IN  /\ DoCheckLimit(l, LimiterKey(name))
                /\ IF ~RunsOperation(check)
                   THEN inv' = [inv EXCEPT ![i] =
                            [IdleSlot EXCEPT
                                !.pc = "done", !.name = name, !.rejected = TRUE,
                                !.limitChecks = 1,
                                !.response =
                                    Catch(RateLimitExceeded(check.resetInSeconds))]]
                   ELSE IF HasHandler(name)
                        THEN inv' = [inv EXCEPT ![i] =
                                [IdleSlot EXCEPT
                                    !.pc = "executing", !.name = name,
                                    !.admitted = check.ok,
                                    !.rejected = ~check.ok,
                                    !.limitChecks = 1,
                                    !.startedAt = now,
                                    !.handlerCalls = 1]]
                        \* tool.handler is not a function: the call throws a
                        \* TypeError, withProgress catches it and sends
                        \* progress.error
                        ELSE inv' = [inv EXCEPT ![i] =
                                AfterThrow(
                                    [IdleSlot EXCEPT
                                        !.name = name,
                                        !.admitted = check.ok,
                                        !.rejected = ~check.ok,
                                        !.limitChecks = 1,
                                        !.startedAt = now],
                                    Error("tool.handler is not a function"))]

\* The handler calls progress.report(): current += increment, then the
\* progress notification is sent; a rejected send is caught and logged.
HandlerReports(i, delivered) ==
    /\ inv[i].pc = "executing"
    /\ inv[i].reportSends < MaxReports
    /\ inv' = [inv EXCEPT ![i] = Report(inv[i], 1, delivered)]
    /\ UNCHANGED <<now, limiters, admitted, last, calls, advances, otherVars>>

\* The handler's promise resolves; the callback goes on to progress.complete().
HandlerReturns(i) ==
    /\ inv[i].pc = "executing"
    /\ inv' = [inv EXCEPT ![i] = AfterReturn(inv[i])]
    /\ UNCHANGED <<now, limiters, admitted, last, calls, advances, otherVars>>

\* The handler's promise rejects with e; withProgress catches it and calls
\* progress.error().
HandlerThrows(i, e) ==
    /\ inv[i].pc = "executing"
    /\ inv' = [inv EXCEPT ![i] = AfterThrow(inv[i], e)]
    /\ limiters' = [limiters EXCEPT ![Route(inv[i].name)] =
                       LimiterAfterThrow(@, LimiterKey(inv[i].name))]
    /\ UNCHANGED <<now, admitted, last, calls, advances, otherVars>>

\* server.notification settles. A rejected send is caught and logged inside
\* complete()/error(), so both outcomes go on the same way: after complete()
\* the result is returned, after error() the error is thrown again and
\* reaches the catch block of the request handler.
NotificationSettles(i, delivered) ==
    /\ inv[i].pc \in {"completing", "erroring"}
    /\ inv' = [inv EXCEPT ![i] = Settle(inv[i], delivered)]
    /\ UNCHANGED <<now, limiters, admitted, last, calls, advances, otherVars>>

Next ==
    \/ \E i \in Slots, name \in CallNames : CallTool(i, name)
    \/ \E i \in Slots : HandlerReturns(i)
    \/ \E i \in Slots, e \in ThrownValues : HandlerThrows(i, e)
    \/ \E i \in Slots, delivered \in BOOLEAN : NotificationSettles(i, delivered)
    \/ \E d \in Deltas : Advance(d)
    \/ CleanupTick

Spec == Init /\ [][Next]_vars

\* The registered handlers ignore the reporter they are given; SpecProgress is
\* the dispatcher with handlers that call progress.report(), at one instant.
ProgressNames == {"getCurrentTime", "traceroute"}

NextProgress ==
    \/ \E i \in Slots, name \in ProgressNames : CallTool(i, name)
    \/ \E i \in Slots, delivered \in BOOLEAN : HandlerReports(i, delivered)
    \/ \E i \in Slots : HandlerReturns(i)
    \/ \E i \in Slots, e \in ThrownValues : HandlerThrows(i, e)
    \/ \E i \in Slots, delivered \in BOOLEAN : NotificationSettles(i, delivered)

SpecProgress == Init /\ [][NextProgress]_vars

----------------------------------------------------------------------------
(* withProgress and the ProgressReporter class driven directly *)

\* `progress-${Date.now()}-${Math.random().toString(36).slice(2)}`: the decimal
\* digits of the clock and the base-36 digits of the random number, neither of
\* which contains "-", so two tokens are the same string exactly when both
\* parts are the same.
Token(time, rand) == [time |-> time, rand |-> rand]

\* new ProgressReporter(server, token, options): current = 0
NewReporter(token) ==
    [token |-> token, current |-> 0, carried |-> <<>>,
     reportSends |-> 0, failedSends |-> 0]

ReportCalls == [r \in 1..Len(reporters) |-> reporters[r].reportSends]

RECURSIVE SumTo(_, _)
SumTo(f, n) == IF n = 0 THEN 0 ELSE f[n] + SumTo(f, n - 1)

\* withProgress(server, options, operation) up to the call of operation: the
\* token is built from the clock and a random number, the reporter is made.
WithProgress(rand) ==
    /\ Len(reporters) < MaxReporters
    /\ reporters' = Append(reporters, NewReporter(Token(now, rand)))
    /\ UNCHANGED <<now, pipelineVars, queries, listed, geoVars, proc>>

\* The operation calls progress.report(increment) on its reporter.
ReportCall(r, increment, delivered) ==
    /\ r \in 1..Len(reporters)
    /\ SumTo(ReportCalls, Len(reporters)) < MaxReportCalls
    /\ reporters' = [reporters EXCEPT ![r] = Report(@, increment, delivered)]
    /\ UNCHANGED <<now, pipelineVars, queries, listed, geoVars, proc>>

NextReporter ==
    \/ \E rand \in Rands : WithProgress(rand)
    \/ \E r \in 1..MaxReporters, increment \in Increments, delivered \in BOOLEAN :
          ReportCall(r, increment, delivered)
    \/ \E d \in Deltas : Advance(d)

SpecReporter == Init /\ [][NextReporter]_vars

----------------------------------------------------------------------------
(* The RateLimiter class driven directly *)

\* What the caller of checkLimit(key) saw: a return, or the error thrown.
Observed(l, key, check) ==
    [limiter |-> l, key |-> key, at |-> now, ok |-> check.ok,
     resetInSeconds |-> check.resetInSeconds]

LimiterKeys == {"getSystemInfo", "getCurrentTime"}

LimiterCheckLimit(l, key) ==
    /\ calls < MaxCalls
    /\ calls' = calls + 1
    /\ DoCheckLimit(l, key)
    /\ last' = Observed(l, key, CheckLimit(limiters[l], key, now))
    /\ UNCHANGED <<now, inv, advances, otherVars>>

LimiterAdvance(d) ==
    /\ now + d <= 2 * MaxTime
    /\ Tick(d)

NextLimiter ==
    \/ \E l \in Limiters, key \in LimiterKeys : LimiterCheckLimit(l, key)
    \/ \E d \in Deltas : LimiterAdvance(d)
    \/ CleanupTick

SpecLimiter == Init /\ [][NextLimiter]_vars

----------------------------------------------------------------------------
(* The RateLimiter class driven directly, with its introspection methods *)

\* getRemainingRequests(key) or getTimeToReset(key) on limiter l
Query(op, l, key) ==
    /\ queries.n < MaxQueries
    /\ queries' = [n |-> queries.n + 1, op |-> op, limiter |-> l, key |-> key, at |-> now]
    /\ limiters' = [limiters EXCEPT ![l] = AfterQuery(limiters[l], key, now)]
    /\ UNCHANGED <<now, inv, admitted, last, calls, advances, listed, geoVars, reporters, proc>>

GetRemainingRequestsCall(l, key) == Query("getRemainingRequests", l, key)

GetTimeToResetCall(l, key) == Query("getTimeToReset", l, key)

\* the limiters and the key of SpecQuery
QueryLimiters == {"system", "network"}

QueryKeys == {"getSystemInfo"}

NextQuery ==
    \/ \E l \in QueryLimiters, key \in QueryKeys : LimiterCheckLimit(l, key)
    \/ \E d \in Deltas : LimiterAdvance(d)
    \/ CleanupTick
    \/ \E l \in QueryLimiters, key \in QueryKeys : GetRemainingRequestsCall(l, key)
    \/ \E l \in QueryLimiters, key \in QueryKeys : GetTimeToResetCall(l, key)

SpecQuery == Init /\ [][NextQuery]_vars

----------------------------------------------------------------------------
(* The Cache class driven directly, with the ttl of geoCache *)

\* everything but the clock and the Cache object
cacheFrame == <<pipelineVars, queries, listed, geoRl, pending, geoCall, lastDone, fetches,
                windowFetches, lastFetch, reporters, proc>>

CacheSetCall(k, v) ==
    /\ cache' = CacheSet(cache, k, v, now)
    /\ cacheOp' = [op |-> "set", key |-> k, value |-> v, at |-> now,
                   found |-> FALSE, data |-> "", prev |-> EntryOf(cache, k)]
    /\ UNCHANGED <<now, cacheFrame>>

CacheGetCall(k) ==
    LET got == CacheGet(cache, k, now, CacheTtl)
    IN  /\ cache' = got.cache
        /\ cacheOp' = [op |-> "get", key |-> k, value |-> "", at |-> now,
                       found |-> got.found, data |-> got.data,
                       prev |-> EntryOf(cache, k)]
        /\ UNCHANGED <<now, cacheFrame>>

CacheClearCall ==
    /\ cache' = CacheClear(cache)
    /\ cacheOp' = [NoCacheOp EXCEPT !.op = "clear", !.at = now]
    /\ UNCHANGED <<now, cacheFrame>>

CachePruneCall ==
    /\ cache' = CachePrune(cache, now, CacheTtl)
    /\ cacheOp' = [NoCacheOp EXCEPT !.op = "prune", !.at = now]
    /\ UNCHANGED <<now, cacheFrame>>

\* Date.now() moves on between two calls.
CacheAdvance(d) ==
    /\ advances < MaxAdvances
    /\ advances' = advances + 1
    /\ now' = now + d
    /\ UNCHANGED <<limiters, inv, admitted, last, calls, otherVars>>

NextCache ==
    \/ \E k \in CacheKeys, v \in CacheValues : CacheSetCall(k, v)
    \/ \E k \in CacheKeys : CacheGetCall(k)
    \/ CacheClearCall
    \/ CachePruneCall
    \/ \E d \in CacheDeltas : CacheAdvance(d)

SpecCache == Init /\ [][NextCache]_vars

----------------------------------------------------------------------------
(* The geolocate and clearGeoCache handlers of tools/geo *)

GeolocateLimitFirst(c, rl, q, t) ==
    LET can == CanMakeRequest(rl, t)
        got == CacheGet(c, q, t, CacheTtl)
    IN  IF ~can.ok
        THEN [outcome |-> "refused", data |-> "", cache |-> c, rl |-> can.rl]
        ELSE IF got.found
             THEN [outcome |-> "cache", data |-> got.data, cache |-> got.cache, rl |-> can.rl]
             ELSE [outcome |-> "fetching", data |-> "", cache |-> got.cache, rl |-> can.rl]

\* The handler up to its first await, at time t: a cache hit returns the cached
\* data with source "cache"; on a miss canMakeRequest() decides between throwing
\* the rate-limit Error and starting fetchGeoData(query).
Geolocate(c, rl, q, t) ==
    LET got == CacheGet(c, q, t, CacheTtl)
        can == CanMakeRequest(rl, t)
    IN  IF got.found
        THEN [outcome |-> "cache", data |-> got.data, cache |-> got.cache, rl |-> rl]
        ELSE IF ~can.ok
             THEN [outcome |-> "refused", data |-> "", cache |-> got.cache, rl |-> can.rl]
             ELSE [outcome |-> "fetching", data |-> "", cache |-> got.cache, rl |-> can.rl]

CacheAfterFetchAlways(c, q, status, data, t) == CacheSet(c, q, data, t)

\* if (data.status === 'success') geoCache.set(query, data)
CacheAfterFetch(c, q, status, data, t) ==
    IF status = "success" THEN CacheSet(c, q, data, t) ELSE c

\* everything but the clock and the state of tools/geo
geoFrame == <<pipelineVars, queries, listed, cacheOp, reporters, proc>>

\* geolocate({query: q}) is called
GeoCall(q) ==
    LET r == Geolocate(cache, geoRl, q, now)
        fetching == r.outcome = "fetching"
    IN  /\ fetching => fetches < MaxFetches
        /\ cache' = r.cache
        /\ geoRl' = r.rl
        /\ geoCall' = [query |-> q, at |-> now, outcome |-> r.outcome, data |-> r.data]
        /\ pending' = IF fetching THEN [pending EXCEPT ![q] = @ + 1] ELSE pending
        /\ fetches' = IF fetching THEN fetches + 1 ELSE fetches
        /\ windowFetches' = (IF r.rl.resetTime # geoRl.resetTime THEN 0 ELSE windowFetches)
                                + (IF fetching THEN 1 ELSE 0)
        /\ UNCHANGED <<now, lastDone, lastFetch, geoFrame>>

\* fetchGeoData(q) resolves with data of the given status: the counter is
\* incremented, a "success" response is cached, the handler returns source "api"
GeoFetchReturns(q, status, data) ==
    /\ pending[q] > 0
    /\ pending' = [pending EXCEPT ![q] = @ - 1]
    /\ geoRl' = IncrementRequests(geoRl)
    /\ cache' = CacheAfterFetch(cache, q, status, data, now)
    /\ lastFetch' = [query |-> q, status |-> status]
    /\ lastDone' = IF status = "success"
                   THEN [lastDone EXCEPT ![q] = [status |-> status, data |-> data, at |-> now]]
                   ELSE lastDone
    /\ UNCHANGED <<now, geoCall, fetches, windowFetches, geoFrame>>

\* fetchGeoData(q) rejects: the handler throws Error("Geolocation failed: ...")
GeoFetchThrows(q) ==
    /\ pending[q] > 0
    /\ pending' = [pending EXCEPT ![q] = @ - 1]
    /\ lastFetch' = [query |-> q, status |-> "threw"]
    /\ UNCHANGED <<now, cache, geoRl, geoCall, lastDone, fetches, windowFetches, geoFrame>>

\* clearGeoCache(): geoCache.clear(); the history of fetches starts anew
ClearGeoCache ==
    /\ cache' = CacheClear(cache)
    /\ lastDone' = [q \in CacheKeys |-> NoFetch]
    /\ UNCHANGED <<now, geoRl, pending, geoCall, fetches, windowFetches, lastFetch, geoFrame>>

FetchStatus == {"success", "fail"}

NextGeo ==
    \/ \E q \in CacheKeys : GeoCall(q)
    \/ \E q \in CacheKeys, status \in FetchStatus, data \in CacheValues :
          GeoFetchReturns(q, status, data)
    \/ \E q \in CacheKeys : GeoFetchThrows(q)
    \/ ClearGeoCache
    \/ \E d \in CacheDeltas : CacheAdvance(d)

SpecGeo == Init /\ [][NextGeo]_vars

----------------------------------------------------------------------------
(* The dispatcher called with tools of the network and geo groups *)

RouteNames == {"pingHost", "getNetworkInterfaces", "traceroute", "geolocate"}

NextRoute ==
    \/ \E i \in Slots, name \in RouteNames : CallTool(i, name)
    \/ \E i \in Slots : HandlerReturns(i)
    \/ \E i \in Slots, e \in ThrownValues : HandlerThrows(i, e)
    \/ \E i \in Slots, delivered \in BOOLEAN : NotificationSettles(i, delivered)

SpecRoute == Init /\ [][NextRoute]_vars

----------------------------------------------------------------------------
(* The ListToolsRequestSchema handler *)

\* Object.entries(allTools): the own keys in the order of the spreads
AllToolsEntries ==
    <<"getCurrentTime", "getSystemInfo", "getLoadAverage",
      "getNetworkInterfaces", "checkConnectivity", "getPublicIP", "pingHost",
      "traceroute",
      "geolocate", "clearGeoCache",
      "generateUUID", "generateQRCode",
      "convertTimezone", "listTimezones",
      "hashData", "compareHashes">>

\* the properties of a tool descriptor
DescriptorFields == {"name", "description", "inputSchema", "handler"}

ListToolsResultWithHandler ==
    [answered |-> TRUE,
     tools |-> [n \in 1..Len(AllToolsEntries) |->
                  [name |-> AllToolsEntries[n], fields |-> DescriptorFields]]]

\* .map(([name, tool]) => ({name, description: tool.description,
\*                          inputSchema: tool.inputSchema}))
ListToolsResult ==
    [answered |-> TRUE,
     tools |-> [n \in 1..Len(AllToolsEntries) |->
                  [name |-> AllToolsEntries[n],
                   fields |-> {"name", "description", "inputSchema"}]]]

\* a tools/list request is answered
ListTools ==
    /\ listed' = ListToolsResult
    /\ UNCHANGED <<now, pipelineVars, queries, geoVars, reporters, proc>>

\* the tool invoked and the cache key set in SpecList
ListNames == {"traceroute"}

ListKeys == {"q1"}

\* tools/list between the steps of tool invocations and of the cache
NextList ==
    \/ ListTools
    \/ \E i \in Slots, name \in ListNames : CallTool(i, name)
    \/ \E i \in Slots : HandlerReturns(i)
    \/ \E i \in Slots, e \in ThrownValues : HandlerThrows(i, e)
    \/ \E i \in Slots, delivered \in BOOLEAN : NotificationSettles(i, delivered)
    \/ \E k \in ListKeys, v \in CacheValues : CacheSetCall(k, v)
    \/ CacheClearCall

SpecList == Init /\ [][NextList]_vars

----------------------------------------------------------------------------
(* Termination: the listeners of setupCleanup and of run() *)

\* everything but the process
procFrame == <<now, pipelineVars, queries, listed, geoVars, reporters>>

\* run(): server.connect(transport) resolves, then the SIGINT and SIGTERM
\* listeners of run() are registered
Connect ==
    /\ proc.exit = "running"
    /\ ~proc.connected
    /\ proc' = [proc EXCEPT !.connected = TRUE, !.runListeners = TRUE]
    /\ UNCHANGED procFrame

\* SIGINT or SIGTERM: the listeners run in the order of registration, each up
\* to its first await. cleanup sets isShuttingDown and starts the shutdown
\* notification; the listener of run(), if registered, starts server.close().
Signal ==
    /\ proc.exit = "running"
    /\ proc.signals < MaxSignals
    /\ LET n == proc.signals + 1
       IN  proc' = [proc EXCEPT
                      !.signals = n,
                      !.isShuttingDown = TRUE,
                      !.cleanup[n] = "notifying",
                      !.shutdownStarted = @ + 1,
                      !.runHandler[n] = IF proc.runListeners THEN "closing" ELSE "idle",
                      !.closeStarted = @ \/ proc.runListeners]
    /\ UNCHANGED procFrame

\* cleanup: await server.notification(...) settles. Delivered, cleanup goes on
\* to server.close(); rejected, the catch block calls process.exit(1).
ShutdownNotificationSettles(n, delivered) ==
    /\ proc.exit = "running"
    /\ proc.cleanup[n] = "notifying"
    /\ proc' = IF delivered
               THEN [proc EXCEPT !.cleanup[n] = "closing",
                                 !.shutdownSent = @ + 1,
                                 !.closeStarted = TRUE]
               ELSE [proc EXCEPT !.cleanup[n] = "done", !.exit = "exit1"]
    /\ UNCHANGED procFrame

\* cleanup: await server.close() settles, then process.exit(0), or
\* process.exit(1) from the catch block
CleanupCloseSettles(n, ok) ==
    /\ proc.exit = "running"
    /\ proc.cleanup[n] = "closing"
    /\ proc' = [proc EXCEPT !.cleanup[n] = "done",
                            !.closed = @ \/ ok,
                            !.exit = IF ok THEN "exit0" ELSE "exit1"]
    /\ UNCHANGED procFrame

\* the listener of run(): await server.close() resolves, then process.exit(0)
RunCloseSettles(n) ==
    /\ proc.exit = "running"
    /\ proc.runHandler[n] = "closing"
    /\ proc' = [proc EXCEPT !.runHandler[n] = "done", !.closed = TRUE,
                            !.exit = "exit0"]
    /\ UNCHANGED procFrame

NextShutdown ==
    \/ Connect
    \/ Signal
    \/ \E n \in 1..MaxSignals, delivered \in BOOLEAN : ShutdownNotificationSettles(n, delivered)
    \/ \E n \in 1..MaxSignals, ok \in BOOLEAN : CleanupCloseSettles(n, ok)
    \/ \E n \in 1..MaxSignals : RunCloseSettles(n)

SpecShutdown == Init /\ [][NextShutdown]_vars

----------------------------------------------------------------------------
(* The geo limiter with the program's configuration *)

ProdCheckLimit ==
    /\ calls <= GeoMaxRequests
    /\ calls' = calls + 1
    /\ DoCheckLimit("geo", "geolocate")
    /\ last' = Observed("geo", "geolocate", CheckLimit(limiters["geo"], "geolocate", now))
    /\ UNCHANGED <<now, inv, advances, otherVars>>

ProdAdvance(d) ==
    /\ advances < MaxAdvances
    /\ advances' = advances + 1
    /\ now' = now + d
    /\ UNCHANGED <<limiters, inv, admitted, last, calls, otherVars>>

NextProd ==
    \/ ProdCheckLimit
    \/ \E d \in ProdDeltas : ProdAdvance(d)

SpecProd == InitProd /\ [][NextProd]_vars

----------------------------------------------------------------------------
(* Properties of the sliding-window RateLimiter *)

\* The admissions of log that are younger than windowMs at time t.
YoungAt(log, t, windowMs) == {j \in 1..Len(log) : t - log[j] < windowMs}

\* The admissions of the key of the last direct call, as they were before it.
LogBeforeLast ==
    LET log == MapGet(admitted[last.limiter], last.key)
    IN  IF last.ok THEN SubSeq(log, 1, Len(log) - 1) ELSE log

\* C1: for every limiter and key, at most maxRequests checkLimit calls succeed
\* within any interval shorter than windowMs; the stored timestamp list never
\* holds more than maxRequests entries; and a call made while maxRequests
\* recorded timestamps are younger than windowMs is rejected.
C1_SlidingWindow ==
    /\ \A l \in Limiters : \A key \in DOMAIN admitted[l] :
          LET log == admitted[l][key]
          IN  \A i \in 1..Len(log) :
                 Cardinality({j \in 1..Len(log) :
                                 /\ log[i] <= log[j]
                                 /\ log[j] - log[i] < limiters[l].windowMs})
                    <= limiters[l].maxRequests
    /\ \A l \in Limiters : \A key \in DOMAIN limiters[l].requests :
          Len(limiters[l].requests[key]) <= limiters[l].maxRequests
    /\ last.limiter # "none" =>
          LET lim == limiters[last.limiter]
          IN  Cardinality(YoungAt(LogBeforeLast, last.at, lim.windowMs))
                  >= lim.maxRequests
              => ~last.ok

\* A key of the network limiter holds maxRequests timestamps and the last call
\* on it was rejected.
C1_Witness ==
    /\ last.limiter = "network"
    /\ ~last.ok
    /\ Len(MapGet(limiters["network"].requests, last.key))
          = limiters["network"].maxRequests
    /\ limiters["network"].maxRequests >= 2

\* The smallest element of a non-empty set of integers.
Minimum(S) == CHOOSE x \in S : \A y \in S : x <= y

\* C2: a rejected checkLimit carries resetInSeconds =
\* ceil((oldest in-window timestamp + windowMs - now) / 1000), which is > 0 and
\* <= ceil(windowMs / 1000).
C2_ResetInSeconds ==
    (last.limiter # "none" /\ ~last.ok) =>
        LET lim == limiters[last.limiter]
            log == LogBeforeLast
            oldest == Minimum({log[j] : j \in YoungAt(log, last.at, lim.windowMs)})
        IN  /\ last.resetInSeconds
                 = CeilDiv(oldest + lim.windowMs - last.at, MsPerSecond)
            /\ last.resetInSeconds > 0
            /\ last.resetInSeconds <= CeilDiv(lim.windowMs, MsPerSecond)

\* With maxRequests = 45 and windowMs = 60000 the 46th consecutive call was
\* rejected with resetInSeconds in 1..60, the clock having moved in between.
C2_Witness ==
    /\ limiters["geo"].maxRequests = 45
    /\ limiters["geo"].windowMs = 60000
    /\ calls = 46
    /\ Len(admitted["geo"]["geolocate"]) = 45
    /\ last.limiter = "geo"
    /\ ~last.ok
    /\ last.at > 0
    /\ last.resetInSeconds \in 1..60

\* C3: once windowMs has passed since the last recorded timestamp of a key,
\* getRemainingRequests(key) is maxRequests again, cleanup() or not.
C3_RemainingRestored ==
    \A l \in Limiters : \A key \in DOMAIN admitted[l] :
        LET log == admitted[l][key]
        IN  now - log[Len(log)] >= limiters[l].windowMs
            => GetRemainingRequests(limiters[l], key, now) = limiters[l].maxRequests

\* A key that was full is still stored, uncleaned, a window after its last
\* timestamp.
C3_Witness ==
    \E l \in Limiters : \E key \in DOMAIN limiters[l].requests :
        /\ Len(limiters[l].requests[key]) = limiters[l].maxRequests
        /\ now - admitted[l][key][Len(admitted[l][key])] >= limiters[l].windowMs
        /\ GetRemainingRequests(limiters[l], key, now) = limiters[l].maxRequests

----------------------------------------------------------------------------
(* Properties of the dispatcher *)

Started == {i \in Slots : inv[i].pc # "idle"}

Finished == {i \in Slots : inv[i].pc = "done"}

\* C4: an invocation whose tool name is not in the registry never invokes a
\* handler and leaves the timestamp maps of all three limiters unchanged: no
\* timestamp is recorded for it, under any key of any limiter.
C4_UnregisteredNoEffect ==
    /\ \A i \in Started :
          inv[i].name \notin Registered
              => inv[i].handlerCalls = 0 /\ ~inv[i].admitted
    /\ \A l \in Limiters : DOMAIN admitted[l] \subseteq Registered

\* C5: an invocation that checkLimit rejected never has its handler invoked,
\* at once or later: it is finished by the rejection.
C5_RejectedNeverRuns ==
    \A i \in Started :
        inv[i].rejected
            => /\ inv[i].handlerCalls = 0
               /\ inv[i].handler = "none"
               /\ inv[i].pc = "done"

\* A registered tool was rejected by its limiter while another invocation of
\* the same tool had been admitted.
C5_Witness ==
    \E i, j \in Started :
        /\ inv[i].rejected
        /\ inv[i].name \in Registered
        /\ inv[j].name = inv[i].name
        /\ inv[j].admitted
        /\ inv[j].handlerCalls = 1

\* C6: for an admitted invocation whose handler throws, exactly one error send
\* and no complete send is attempted; for one whose handler returns normally,
\* exactly one complete send and no error send.
C6_OneTerminalSend ==
    \A i \in Started :
        inv[i].admitted =>
            /\ inv[i].handler = "threw"
                  => inv[i].errorSends = 1 /\ inv[i].completeSends = 0
            /\ inv[i].handler = "returned"
                  => inv[i].completeSends = 1 /\ inv[i].errorSends = 0

\* One finished invocation whose handler threw and one whose handler returned.
C6_Witness ==
    \E i, j \in Finished :
        /\ inv[i].admitted /\ inv[i].handlerCalls = 1 /\ inv[i].handler = "threw"
        /\ inv[j].admitted /\ inv[j].handlerCalls = 1 /\ inv[j].handler = "returned"

\* C7 as stated: every finished invocation, the ones that end as NotFound or
\* RateLimitExceeded included, attempted exactly one terminal notification.
C7_Original ==
    \A i \in Finished : inv[i].completeSends + inv[i].errorSends = 1

\* C7 amended: every finished invocation that checkLimit admitted attempted
\* exactly one terminal notification (complete or error, never both, never
\* neither); one that ended as NotFound or RateLimitExceeded attempted none.
C7_TerminalIffAdmitted ==
    \A i \in Finished :
        IF inv[i].admitted
        THEN inv[i].completeSends + inv[i].errorSends = 1
        ELSE inv[i].completeSends + inv[i].errorSends = 0

\* An admitted invocation finished next to one that ended as NotFound.
C7_Witness ==
    \E i, j \in Finished :
        /\ inv[i].admitted /\ inv[i].handler = "returned"
        /\ ~inv[j].admitted /\ ~Lookup(inv[j].name)

\* The failures that end an invocation before its handler runs.
ShortCircuited(i) == ~Lookup(inv[i].name) \/ inv[i].rejected

AdmittedIn(l, k, t) ==
    {j \in 1..Len(MapGet(admitted[l], k)) :
        /\ t <= admitted[l][k][j]
        /\ admitted[l][k][j] - t < limiters[l].windowMs}

\* C10: two distinct registered tool names routed to the same limiter share
\* its budget: in any window of windowMs the admissions of both together
\* number at most maxRequests.
C10_SharedBudget ==
    \A k1, k2 \in Registered \cap CallNames :
        (k1 # k2 /\ Route(k1) = Route(k2)) =>
            \A t \in 0..now :
                Cardinality(AdmittedIn(Route(k1), k1, t))
                    + Cardinality(AdmittedIn(Route(k1), k2, t))
                  <= limiters[Route(k1)].maxRequests

----------------------------------------------------------------------------
(* Further properties of the dispatcher *)

\* The tool name matches none of the routing rules.
MatchesNoRule(name) ==
    /\ ~StartsWith(name, <<"g", "e", "t", "_", "s", "y", "s", "t", "e", "m">>)
    /\ ~StartsWith(name, <<"g", "e", "t", "_", "n", "e", "t", "w", "o", "r", "k">>)
    /\ name \notin {"ping_host", "traceroute", "geolocate"}

\* C11: every registered tool name that matches none of the routing rules is
\* routed to the default limiter, systemRateLimiter: its admissions are
\* recorded there and the network and geo limiters hold nothing for it.
C11_DefaultRoute ==
    /\ \A name \in Registered : MatchesNoRule(name) => Route(name) = "system"
    /\ \A name \in Registered \cap CallNames :
          MatchesNoRule(name) =>
              \A l \in {"network", "geo"} :
                  /\ name \notin DOMAIN admitted[l]
                  /\ name \notin DOMAIN limiters[l].requests
    /\ \A i \in Started :
          (inv[i].name \in Registered /\ MatchesNoRule(inv[i].name) /\ inv[i].admitted)
              => inv[i].name \in DOMAIN admitted["system"]

\* A tool matching no rule was admitted by the system limiter while the
\* network limiter holds a timestamp of traceroute only.
C11_Witness ==
    \E i \in Started :
        /\ inv[i].name \in Registered
        /\ MatchesNoRule(inv[i].name)
        /\ inv[i].admitted
        /\ inv[i].name \in DOMAIN limiters["system"].requests
        /\ DOMAIN limiters["network"].requests = {"traceroute"}

\* The invocation in slot i failed: lookup, rate limit or handler error.
Failed(i) ==
    \/ ~Lookup(inv[i].name)
    \/ inv[i].rejected
    \/ inv[i].handler = "threw"

\* The response of slot i reports a failure: a thrown McpToolError or the
\* error envelope.
ReportsFailure(i) ==
    \/ inv[i].response.kind = "thrown" /\ inv[i].response.error # NoError
    \/ inv[i].response.kind = "envelope" /\ inv[i].response.isError

\* C18: within one invocation the handler is invoked at most once and the
\* limiter is checked at most once; a failed lookup reaches neither, a
\* rejection never reaches the handler, and a finished invocation that failed
\* carries the failure in its own response.
C18_NoRetry ==
    \A i \in Started :
        /\ inv[i].handlerCalls <= 1
        /\ inv[i].limitChecks <= 1
        /\ ~Lookup(inv[i].name) => inv[i].limitChecks = 0 /\ inv[i].handlerCalls = 0
        /\ inv[i].rejected => inv[i].handlerCalls = 0
        /\ (i \in Finished /\ Failed(i)) => ReportsFailure(i)
        /\ (i \in Finished /\ ~Failed(i)) => inv[i].response = SuccessEnvelope

\* Three kinds of failure: an invocation whose handler threw after one call and
\* one limiter check, next to a rejected one, both finished with the failure
\* in the response.
C18_Witness ==
    \E i, j \in Finished :
        /\ inv[i].handler = "threw"
        /\ inv[i].handlerCalls = 1
        /\ inv[i].limitChecks = 1
        /\ ReportsFailure(i)
        /\ inv[j].rejected
        /\ inv[j].limitChecks = 1
        /\ ReportsFailure(j)

\* Invocations whose handler ran to an outcome and whose response is out.
Ran == {i \in Finished : inv[i].handlerCalls = 1}

\* C15: a failed server.notification in report, complete or error never
\* changes the outcome of the invocation. A finished invocation whose handler
\* returned has the success envelope and one whose handler threw e has what
\* the catch block makes of e, whatever number of its sends failed; two
\* invocations with the same handler outcome and the same number of reports
\* have the same response and the same progress count, even when the sends of
\* one failed and those of the other were delivered.
C15_NotificationFailureHarmless ==
    /\ \A i \in Ran :
          /\ inv[i].handler = "returned" => inv[i].response = SuccessEnvelope
          /\ inv[i].handler = "threw" => inv[i].response = Catch(inv[i].error)
          /\ inv[i].current = inv[i].reportSends
    /\ \A i, j \in Ran :
          (/\ inv[i].handler = inv[j].handler
           /\ inv[i].error = inv[j].error
           /\ inv[i].reportSends = inv[j].reportSends)
              => /\ inv[i].response = inv[j].response
                 /\ inv[i].current = inv[j].current

\* Two invocations whose handlers reported once and then threw the same error:
\* both sends of the first failed, both sends of the second were delivered.
C15_Witness ==
    \E i, j \in Ran :
        /\ inv[i].handler = "threw"
        /\ inv[j].handler = "threw"
        /\ inv[i].error = inv[j].error
        /\ inv[i].reportSends = 1
        /\ inv[j].reportSends = 1
        /\ inv[i].failedSends = 2
        /\ inv[j].failedSends = 0
        /\ inv[i].response = inv[j].response

\* Invocations of tool name that passed the limiter / whose handler was started.
AdmittedSlots(name) == {i \in Started : inv[i].name = name /\ inv[i].admitted}

HandlerStarts(name) == {i \in AdmittedSlots(name) : inv[i].handlerCalls = 1}

Occurrences(seq, x) == Cardinality({n \in 1..Len(seq) : seq[n] = x})

\* C16: with invocations of one tool name interleaved at every await, the
\* handler executions started for the name within any window of windowMs
\* (here: every window ending at one of the starts) never exceed maxRequests,
\* and no admitted invocation's timestamp is lost: while it is inside the
\* window, the limiter's list for the name holds it once per invocation
\* admitted at that time.
C16_ConcurrentCountIntact ==
    \A name \in CallNames :
        Lookup(name) =>
            LET lim == limiters[Route(name)]
                list == MapGet(lim.requests, LimiterKey(name))
            IN  /\ \A i \in HandlerStarts(name) :
                      Cardinality({j \in HandlerStarts(name) :
                                      /\ inv[j].startedAt <= inv[i].startedAt
                                      /\ InWindow(inv[i].startedAt,
                                                  inv[j].startedAt, lim.windowMs)})
                          <= lim.maxRequests
                /\ \A i \in AdmittedSlots(name) :
                      InWindow(now, inv[i].startedAt, lim.windowMs) =>
                          Occurrences(list, inv[i].startedAt)
                              = Cardinality({j \in AdmittedSlots(name) :
                                                inv[j].startedAt = inv[i].startedAt})

\* Two invocations of the same tool in flight: the first awaits its handler
\* while the second is admitted at a later time and awaits its own, and the
\* limiter's list for the name holds both timestamps.
C16_Witness ==
    \E i, j \in Slots :
        /\ i # j
        /\ inv[i].name = inv[j].name
        /\ inv[i].pc = "executing"
        /\ inv[j].pc = "executing"
        /\ inv[i].startedAt < inv[j].startedAt
        /\ Len(MapGet(limiters[Route(inv[i].name)].requests,
                      LimiterKey(inv[i].name))) = 2

\* The same two invocations where the limit is one: the second is rejected
\* while the first still awaits its handler.
C16_WitnessRejected ==
    \E i, j \in Slots :
        /\ inv[i].name = inv[j].name
        /\ inv[i].pc = "executing"
        /\ inv[j].rejected

----------------------------------------------------------------------------
(* Properties of the introspection methods of the RateLimiter *)

\* C17: getRemainingRequests(key) and getTimeToReset(key) leave the timestamp
\* map of every limiter as it was; called again at the same time each returns
\* what it returned before, and a checkLimit that follows does what it would
\* have done without them.
C17_QueriesReadOnly ==
    [][queries' # queries =>
          /\ limiters' = limiters
          /\ \A l \in QueryLimiters, key \in QueryKeys :
                /\ GetRemainingRequests(limiters'[l], key, now')
                      = GetRemainingRequests(limiters[l], key, now)
                /\ GetTimeToReset(limiters'[l], key, now')
                      = GetTimeToReset(limiters[l], key, now)
                /\ CheckLimit(limiters'[l], key, now')
                      = CheckLimit(limiters[l], key, now)]_vars

\* A query was just made for a key whose list still holds a timestamp that
\* has left the window, which the query filtered out but did not remove.
C17_Witness ==
    /\ queries.n >= 1
    /\ queries.at = now
    /\ queries.key \in DOMAIN limiters[queries.limiter].requests
    /\ LET lim == limiters[queries.limiter]
       IN  ValidTimestamps(lim.requests[queries.key], now, lim.windowMs)
               # lim.requests[queries.key]

----------------------------------------------------------------------------
(* Properties of the Cache *)

\* C12: after set(k, v), a get(k) with no time elapsed returns v; a set on a
\* key that holds an entry replaces it wholesale, value and timestamp, the
\* timestamp being the time of the later set; the entries of all other keys
\* are as they were.
C12_SetThenGet ==
    [][\A k \in CacheKeys, v \in CacheValues :
          CacheSetCall(k, v) =>
              /\ CacheGet(cache', k, now', CacheTtl).found
              /\ CacheGet(cache', k, now', CacheTtl).data = v
              /\ cache'[k] = [data |-> v, timestamp |-> now]
              /\ \A k2 \in CacheKeys \ {k} : EntryOf(cache', k2) = EntryOf(cache, k2)]_vars

\* A set has just replaced an older entry of its key that held another value,
\* while the other key holds an entry of its own.
C12_Witness ==
    /\ cacheOp.op = "set"
    /\ cacheOp.prev # NoEntry
    /\ cacheOp.prev.data # cacheOp.value
    /\ cacheOp.prev.timestamp < cacheOp.at
    /\ cache[cacheOp.key] = [data |-> cacheOp.value, timestamp |-> cacheOp.at]
    /\ \E k2 \in (DOMAIN cache) \ {cacheOp.key} : cache[k2].timestamp < cacheOp.at

\* C13: a get returns a value only if the entry's age, the time since the last
\* set of the key, is at most ttl, and then the value of that set; a get on
\* an entry older than ttl returns null and removes the entry from the map.
C13_NoStaleValue ==
    cacheOp.op = "get" =>
        /\ cacheOp.found =>
              /\ cacheOp.prev # NoEntry
              /\ cacheOp.at - cacheOp.prev.timestamp <= CacheTtl
              /\ cacheOp.data = cacheOp.prev.data
        /\ (cacheOp.prev # NoEntry /\ cacheOp.at - cacheOp.prev.timestamp > CacheTtl)
              => /\ ~cacheOp.found
                 /\ cacheOp.key \notin DOMAIN cache

\* A get on an entry one millisecond past the ttl returned null and removed it.
C13_Witness ==
    /\ cacheOp.op = "get"
    /\ cacheOp.prev # NoEntry
    /\ cacheOp.at - cacheOp.prev.timestamp = CacheTtl + 1
    /\ ~cacheOp.found
    /\ cacheOp.key \notin DOMAIN cache

\* A get on an entry of age exactly ttl returned its value.
C13_WitnessAtTtl ==
    /\ cacheOp.op = "get"
    /\ cacheOp.found
    /\ cacheOp.at - cacheOp.prev.timestamp = CacheTtl

----------------------------------------------------------------------------
(* Properties of the geolocate handler *)

\* C14: a geolocate call made no more than the cache ttl (300000 ms) after a
\* call with the same query fetched a status "success" response, that fetch
\* being the latest such for the query and the cache not having been cleared
\* since, returns source "cache" with the data of that fetch, starts no
\* external fetch and leaves the handler's request counter as it was.
C14_SecondCallFromCache ==
    [][\A q \in CacheKeys :
          (/\ GeoCall(q)
           /\ lastDone[q].status = "success"
           /\ now - lastDone[q].at <= CacheTtl)
              => /\ geoCall'.outcome = "cache"
                 /\ geoCall'.data = lastDone[q].data
                 /\ fetches' = fetches
                 /\ pending' = pending
                 /\ geoRl' = geoRl]_vars

\* The second call came exactly ttl after the first call's fetch had returned
\* "success": it was answered from the cache with that data, after the window
\* of the handler's rate limiter had ended, and the only fetch is the first's.
C14_Witness ==
    /\ geoCall.outcome = "cache"
    /\ geoCall.query \in CacheKeys
    /\ lastDone[geoCall.query].status = "success"
    /\ geoCall.at - lastDone[geoCall.query].at = CacheTtl
    /\ geoCall.data = lastDone[geoCall.query].data
    /\ fetches = 1
    /\ geoRl.requests = 1
    /\ now >= geoRl.resetTime

\* The second call one millisecond after the first.
C14_WitnessSoon ==
    /\ geoCall.outcome = "cache"
    /\ geoCall.query \in CacheKeys
    /\ lastDone[geoCall.query].status = "success"
    /\ geoCall.at - lastDone[geoCall.query].at = 1
    /\ geoCall.data = lastDone[geoCall.query].data
    /\ fetches = 1

----------------------------------------------------------------------------
(* Properties of the tool listing *)

\* C20: the answer to tools/list holds exactly one entry per registered tool
\* name and no other, each with the properties name, description and
\* inputSchema and no handler; answering it invokes no handler and leaves the
\* rate limiters of the dispatcher, the geo cache and the rate limiter of
\* tools/geo unchanged.
C20_ListToolsReadOnly ==
    [][ListTools =>
          /\ \A name \in Registered :
                Cardinality({n \in DOMAIN listed'.tools :
                                listed'.tools[n].name = name}) = 1
          /\ \A n \in DOMAIN listed'.tools :
                /\ listed'.tools[n].name \in Registered
                /\ listed'.tools[n].fields = {"name", "description", "inputSchema"}
          /\ \A i \in Slots : inv'[i].handlerCalls = inv[i].handlerCalls
          /\ fetches' = fetches
          /\ limiters' = limiters
          /\ cache' = cache
          /\ geoRl' = geoRl]_vars

\* The listing was answered while a limiter held a timestamp, the cache held an
\* entry and a handler was running.
C20_Witness ==
    /\ listed.answered
    /\ Len(listed.tools) = Cardinality(Registered)
    /\ \E l \in Limiters : DOMAIN limiters[l].requests # {}
    /\ DOMAIN cache # {}
    /\ \E i \in Slots : inv[i].pc = "executing"

----------------------------------------------------------------------------
(* Properties of the termination *)

\* C19: on a termination signal the shutdown notification has been sent, its
\* send settled as delivered, before server.close() is called and before the
\* process exits with code 0, whichever listeners have run.
C19_NotificationBeforeClose ==
    /\ proc.closeStarted => proc.shutdownSent >= 1
    /\ proc.exit = "exit0" => proc.shutdownSent >= 1

----------------------------------------------------------------------------
(* Further properties of the sliding-window RateLimiter *)

\* The times, from now on, at which a later call is looked at.
LaterTimes == {now} \cup {now + d : d \in Deltas}

\* C26: a checkLimit(key) that rejects leaves the timestamp map of the limiter
\* as it was, neither recording the attempt nor storing the filtered list, so
\* at every later time the key is admitted or rejected as it would have been
\* without the rejected call.
C26_RejectionLeavesMap ==
    [][\A l \in Limiters, key \in LimiterKeys :
          (LimiterCheckLimit(l, key) /\ ~CheckLimit(limiters[l], key, now).ok)
              => /\ limiters' = limiters
                 /\ admitted' = admitted
                 /\ \A t \in LaterTimes :
                       CheckLimit(limiters'[l], key, t).ok
                           = CheckLimit(limiters[l], key, t).ok]_vars

\* The last of at least three calls was rejected, later than the last
\* admission of its key, whose timestamp is still the newest of the list.
C26_Witness ==
    /\ last.limiter \in Limiters
    /\ ~last.ok
    /\ calls >= 3
    /\ last.at > 0
    /\ LET list == MapGet(limiters[last.limiter].requests, last.key)
           log == MapGet(admitted[last.limiter], last.key)
       IN  /\ Len(list) >= 1
           /\ list[Len(list)] = log[Len(log)]
           /\ list[Len(list)] < last.at

\* C27: when the last checkLimit(key) was rejected at time t with
\* resetInSeconds = r and none has succeeded since, a checkLimit(key) made
\* now, at a time >= t + 1000 * r, succeeds.
C27_RetryAfterSufficient ==
    (/\ last.limiter \in Limiters
     /\ ~last.ok
     /\ now >= last.at + MsPerSecond * last.resetInSeconds)
        => CheckLimit(limiters[last.limiter], last.key, now).ok

\* The 46th call was rejected with resetInSeconds = 60 while the 45 before it
\* were all inside the window; now is exactly 60 seconds after the rejection.
C27_Witness ==
    /\ last.limiter = "geo"
    /\ ~last.ok
    /\ last.resetInSeconds = 60
    /\ now = last.at + MsPerSecond * last.resetInSeconds
    /\ Len(MapGet(limiters["geo"].requests, last.key)) = GeoMaxRequests
    /\ CheckLimit(limiters["geo"], last.key, now).ok

\* What a caller can see of limiter lim for key at time t: the outcome of
\* checkLimit with the list it leaves for the key, and the two introspections.
Observation(lim, key, t) ==
    LET check == CheckLimit(lim, key, t)
    IN  [ok |-> check.ok,
         resetInSeconds |-> check.resetInSeconds,
         list |-> MapGet(check.lim.requests, key),
         remaining |-> GetRemainingRequests(lim, key, t),
         timeToReset |-> GetTimeToReset(lim, key, t)]

\* C25: cleanup() removes exactly the keys that have no timestamp younger than
\* windowMs, and for every key and every later time checkLimit,
\* getRemainingRequests and getTimeToReset give on the cleaned limiter what
\* they give on the limiter as it was.
C25_CleanupTransparent ==
    [][CleanupTick =>
          \A l \in Limiters :
              /\ DOMAIN limiters'[l].requests
                    = {k \in DOMAIN limiters[l].requests :
                          \E n \in 1..Len(limiters[l].requests[k]) :
                              InWindow(now, limiters[l].requests[k][n],
                                       limiters[l].windowMs)}
              /\ \A key \in LimiterKeys, t \in LaterTimes :
                    Observation(limiters'[l], key, t)
                        = Observation(limiters[l], key, t)]_vars

\* cleanup() has removed a key that had been admitted on a limiter and kept
\* another key of the same limiter, which still holds a young timestamp.
C25_Witness ==
    \E l \in Limiters :
        \E k1 \in DOMAIN admitted[l], k2 \in DOMAIN limiters[l].requests :
            /\ k1 \notin DOMAIN limiters[l].requests
            /\ InWindow(now, limiters[l].requests[k2][1], limiters[l].windowMs)

----------------------------------------------------------------------------
(* Further properties of the routing *)

----------------------------------------------------------------------------
(* Admission and failure *)

\* The admitted invocations of name whose admission is inside the window now.
YoungAdmissions(name) ==
    {i \in AdmittedSlots(name) :
        InWindow(now, inv[i].startedAt, limiters[Route(name)].windowMs)}

\* C29: the timestamp recorded at the admission of an invocation stays in the
\* limiter when its handler throws, so what remains of the budget of a tool
\* is maxRequests less its admissions inside the window, those that failed
\* counted like those that succeeded or still run.
C29_FailureKeepsAdmission ==
    \A name \in CallNames :
        Lookup(name) =>
            LET lim == limiters[Route(name)]
            IN  /\ GetRemainingRequests(lim, LimiterKey(name), now)
                      = Max(0, lim.maxRequests - Cardinality(YoungAdmissions(name)))
                /\ \A i \in YoungAdmissions(name) :
                      inv[i].handler = "threw" =>
                          Occurrences(MapGet(lim.requests, LimiterKey(name)),
                                      inv[i].startedAt) >= 1

\* An invocation whose handler threw has got its response; its timestamp is
\* in the list of its tool and an invocation of the same tool was rejected.
C29_Witness ==
    \E i, j \in Finished :
        /\ inv[i].handlerCalls = 1
        /\ inv[i].handler = "threw"
        /\ i \in YoungAdmissions(inv[i].name)
        /\ Occurrences(MapGet(limiters[Route(inv[i].name)].requests,
                              LimiterKey(inv[i].name)), inv[i].startedAt) = 1
        /\ inv[j].name = inv[i].name
        /\ inv[j].rejected
        /\ GetRemainingRequests(limiters[Route(inv[i].name)],
                                LimiterKey(inv[i].name), now) = 0

----------------------------------------------------------------------------
(* Further properties of the geolocate handler *)

\* The fetch for q settles without a "success" response: it rejects, or
\* resolves with another status.
FetchFails(q) ==
    \/ GeoFetchThrows(q)
    \/ \E data \in CacheValues : GeoFetchReturns(q, "fail", data)

OthersUnchanged(q) ==
    \A q2 \in CacheKeys \ {q} : EntryOf(cache', q2) = EntryOf(cache, q2)

\* C30 as stated: after a fetch for q that throws or returns another status
\* the cache holds no entry for q, the next geolocate(q) starts an external
\* fetch again, and the entries of other queries are unchanged.
C30_Original ==
    [][\A q \in CacheKeys :
          FetchFails(q) =>
              /\ q \notin DOMAIN cache'
              /\ Geolocate(cache', geoRl', q, now').outcome = "fetching"
              /\ OthersUnchanged(q)]_vars

\* C30: the cache is written only for a fetched response of status "success",
\* and then under the query of that fetch only. A fetch for q that throws or
\* returns another status leaves the whole cache as it was; if the cache held
\* no entry for q and the handler's rate limiter admits a request, the next
\* geolocate(q) starts an external fetch again.
C30_FailedFetchNoWrite ==
    [][\A q \in CacheKeys :
          /\ FetchFails(q) =>
                /\ cache' = cache
                /\ (q \notin DOMAIN cache /\ CanMakeRequest(geoRl', now').ok)
                      => Geolocate(cache', geoRl', q, now').outcome = "fetching"
          /\ \A data \in CacheValues :
                GeoFetchReturns(q, "success", data) =>
                    /\ cache'[q] = [data |-> data, timestamp |-> now]
                    /\ OthersUnchanged(q)]_vars

\* The most recent fetch settled without "success" and the cache holds no
\* entry for its query, while it holds the entry of the other query.
C30_Witness ==
    /\ lastFetch.status \in {"fail", "threw"}
    /\ lastFetch.query \notin DOMAIN cache
    /\ DOMAIN cache # {}
    /\ pending[lastFetch.query] = 0

\* C22: the fetches started within one window of the handler's rate limiter
\* never exceed its maxRequests.
C22_FetchCap == windowFetches <= geoRl.maxRequests

\* What the runtime guarantees of geolocate without any further call from a
\* client: a fetch in flight settles, and the clock moves on. No timer of the
\* repository calls geoCache.prune(), so no sweep is among the fair steps.
FetchSettles ==
    \/ \E q \in CacheKeys, status \in FetchStatus, data \in CacheValues :
          GeoFetchReturns(q, status, data)
    \/ \E q \in CacheKeys : GeoFetchThrows(q)

SpecGeoFair ==
    /\ Init
    /\ [][NextGeo]_vars
    /\ WF_vars(FetchSettles)
    /\ WF_vars(\E d \in CacheDeltas : CacheAdvance(d))

\* C21: every entry of geoCache whose age exceeds ttl is eventually removed
\* from the map, whether or not its key is read again.
C21_ExpiredEventuallyRemoved ==
    \A k \in CacheKeys :
        (k \in DOMAIN cache /\ Expired(cache[k], now, CacheTtl)) ~> (k \notin DOMAIN cache)

\* An entry leaves the map only by a geolocate call for its own key or by
\* clearGeoCache: the passing of time alone, however long, removes nothing.
C21_RemovedOnlyByReadOrClear ==
    [][\A k \in CacheKeys :
          (k \in DOMAIN cache /\ k \notin DOMAIN cache') => (GeoCall(k) \/ ClearGeoCache)]_vars

\* C23: the values of current carried by the successive progress
\* notifications of one reporter never decrease.
C23_CurrentMonotonic ==
    \A r \in 1..Len(reporters) :
        \A n \in 1..(Len(reporters[r].carried) - 1) :
            reporters[r].carried[n] <= reporters[r].carried[n + 1]

\* C24: two reporters made by withProgress never have the same token.
C24_TokensDiffer ==
    \A r, s \in 1..Len(reporters) :
        r # s => reporters[r].token # reporters[s].token

====
